---- MODULE Spec2Model ----
(***************************************************************************)
(* Model of src/src/ingestion/fetch_crypto_data.py: CryptoDataFetcher's    *)
(* fetch -> normalize -> persist pipeline.  One process per invocation of  *)
(* main(); the processes share the wall clock and the directory data/raw/. *)
(***************************************************************************)
EXTENDS Integers, Sequences, FiniteSets, TLC

(* ------------------------------ bounds --------------------------------- *)

\* Concurrent invocations of main() (scheduler ticks that may overlap).
NumProcs == 2

\* Longest JSON array the upstream API answers with.
MaxRecords == 2

\* The wall clock runs from 0 to MaxClock ticks.
MaxClock == 3

\* Clock ticks per wall-clock second: datetime.now() resolves the ticks,
\* strftime("%Y%m%d_%H%M%S") only the seconds.
TicksPerSecond == 2

\* Longest array handed to process_market_data in SpecNormalize.
MaxBatch == 2

(* ---------------------------- configuration ---------------------------- *)

\* self.config['api']['coingecko']['rate_limit_per_minute']
RateLimitPerMinute == 120

\* time.sleep(60 / rate_limit_per_minute), in clock ticks.
SleepTicks == (60 * TicksPerSecond) \div RateLimitPerMinute

Procs == 1..NumProcs

(* ----------------------------- JSON values ----------------------------- *)

\* What response.json() can return, tagged by its Python type.
Null == [kind |-> "null"]
Num(n) == [kind |-> "number", num |-> n]
Str(s) == [kind |-> "string", str |-> s]
Obj(f) == [kind |-> "object", fields |-> f]
Arr(s) == [kind |-> "array", items |-> s]

\* A 2xx response whose body is not JSON: response.json() raises ValueError.
Undecodable == [kind |-> "invalid"]

\* No response received (yet).
NoResponse == [kind |-> "none"]

\* A faulty variant of Truthy: the test written as `raw_data is not None`.
TruthyIsNotNone(v) == v.kind \notin {"null", "none", "invalid"}

\* Python truthiness, as used by `if not raw_data`.
Truthy(v) ==
    CASE v.kind = "null" -> FALSE
      [] v.kind = "number" -> v.num # 0
      [] v.kind = "string" -> v.str # ""
      [] v.kind = "object" -> DOMAIN v.fields # {}
      [] v.kind = "array" -> Len(v.items) > 0
      [] OTHER -> FALSE

\* `for coin in raw_data`: a number is not iterable (TypeError).
Iterable(v) == v.kind \in {"array", "object"}

\* The sequence `for coin in raw_data` walks: a list's items, a dict's keys.
SetToSeq(S) ==
    CHOOSE s \in [1..Cardinality(S) -> S] : \A x \in S : \E i \in DOMAIN s : s[i] = x

Iterate(v) ==
    IF v.kind = "array" THEN v.items
    ELSE IF v.kind = "object" THEN [i \in 1..Cardinality(DOMAIN v.fields) |->
                                        Str(SetToSeq(DOMAIN v.fields)[i])]
    ELSE <<>>

(* ------------------------------ the schema ----------------------------- *)

\* The keys read from a raw record, coin.get(<key>).
SourceKeys ==
    {"id", "symbol", "name", "current_price", "market_cap", "market_cap_rank",
     "total_volume", "price_change_24h", "price_change_percentage_24h",
     "market_cap_change_24h", "market_cap_change_percentage_24h",
     "circulating_supply", "total_supply", "max_supply", "last_updated"}

\* The keys whose upstream value is a string; the others are numbers.
StringKeys == {"id", "symbol", "name", "last_updated"}

\* The columns of a processed row.
ColumnSet == (SourceKeys \ {"id"}) \cup {"timestamp", "coin_id"}

\* A faulty variant of SourceKey: 'coin_id' read from the key of its own name.
SourceKeySameName(col) == col

\* 'coin_id': coin.get('id'); every other column reads the key of its name.
SourceKey(col) == IF col = "coin_id" THEN "id" ELSE col

\* A faulty variant of IsoFormat: the timestamp cut to whole seconds.
IsoFormatSeconds(t) == [sec |-> t \div TicksPerSecond, frac |-> 0]

\* datetime.now().isoformat(): the clock reading to its full resolution.
IsoFormat(t) == [sec |-> t \div TicksPerSecond, frac |-> t % TicksPerSecond]

\* datetime.now().strftime("%Y%m%d_%H%M%S"): the clock reading cut to seconds.
StrfTime(t) == t \div TicksPerSecond

\* coin.get(key) on a dict: the value, None when the key is missing.
Get(coin, key) ==
    IF key \in DOMAIN coin.fields THEN coin.fields[key] ELSE Null

\* Only a dict has .get; on any other JSON value coin.get raises AttributeError.
HasGet(coin) == coin.kind = "object"

\* The dict literal built for one record.
ProcessedCoin(coin, now) ==
    [c \in ColumnSet |->
        IF c = "timestamp" THEN IsoFormat(now) ELSE Get(coin, SourceKey(c))]

(* ------------------------------- inputs -------------------------------- *)

\* All sequences over S of length at most n.
SeqsUpTo(S, n) == UNION {[1..k -> S] : k \in 0..n}

\* A record carrying every source key with a value of the expected type.
FullRecord(id) ==
    Obj([k \in SourceKeys |-> IF k \in StringKeys THEN Str(id) ELSE Num(1)])

\* The record without key k.
Missing(rec, k) == Obj([j \in DOMAIN rec.fields \ {k} |-> rec.fields[j]])

\* The record with a value of the wrong type under key k.
WrongTyped(rec, k) ==
    Obj([rec.fields EXCEPT ![k] = IF k \in StringKeys THEN Num(7) ELSE Str("n/a")])

\* Entries of the upstream array in the pipeline runs: a well-formed record,
\* a record missing a field and an entry that is not a mapping.
PipelineRecords ==
    {FullRecord("bitcoin"), Missing(FullRecord("ethereum"), "current_price"),
     Str("oops")}

\* Bodies of a 2xx response: not JSON, null, a number, an error object, an
\* array.
Bodies ==
    {Undecodable, Null, Num(429), Obj([error |-> Str("throttled")])}
        \cup {Arr(s) : s \in SeqsUpTo(PipelineRecords, MaxRecords)}

\* requests.exceptions.RequestException raised by requests.get (transport,
\* timeout) or by response.raise_for_status() (non-2xx status).
RequestErrors == {"transport", "timeout", "http_status"}

\* Entries handed to process_market_data in SpecNormalize: per source key, a
\* record missing it and a record carrying a wrong-typed value under it.
BatchRecords ==
    {FullRecord("bitcoin"), Str("oops")}
        \cup {Missing(FullRecord("ethereum"), k) : k \in SourceKeys}
        \cup {WrongTyped(FullRecord("tether"), k) : k \in SourceKeys}

(* ------------------------------- state --------------------------------- *)

VARIABLES
    clock,      \* the wall clock, in ticks
    files,      \* data/raw/: file name (the second in it) -> the rows it holds
    intended,   \* history: file name -> the DataFrame its last to_csv was given
    proc        \* per invocation: position, locals, outcome, call history

vars == <<clock, files, intended, proc>>

\* An invocation before fetch_and_save_data is entered.
IdleProc ==
    [pc |-> "idle", response |-> NoResponse, error |-> "none", wakeAt |-> 0,
     raw_data |-> Null, idx |-> 0, processed_data |-> <<>>, filepath |-> <<>>,
     written |-> 0, result |-> "pending", stage |-> "none",
     gets |-> 0, slept |-> 0, calls |-> {}]

\* fetch_and_save_data returns: its locals are gone, the outcome is logged.
Return(s, res, stage) ==
    [s EXCEPT !.pc = "done", !.result = res, !.stage = stage, !.wakeAt = 0,
              !.raw_data = Null, !.idx = 0, !.processed_data = <<>>, !.written = 0]

\* The `return False` after each stage's error log.
ReturnFalse(s, stage) == Return(s, "False", stage)

\* `return True` after "Successfully completed data fetch and save".
ReturnTrue(s) == Return(s, "True", "success")

\* A faulty variant of OuterExcept: the exception is logged and raised again.
OuterExceptReraises(s) == Return(s, "raised", "exception")

\* except Exception in fetch_and_save_data: log "Unexpected error", return False.
OuterExcept(s) == ReturnFalse(s, "exception")

\* A faulty variant of AfterFetch: the `if not raw_data` test is missing.
AfterFetchUnchecked(s) ==
    [s EXCEPT !.pc = "normalize", !.idx = 1, !.processed_data = <<>>,
              !.calls = @ \cup {"process_market_data"}]

\* raw_data = self.fetch_market_data(); if not raw_data: return False;
\* otherwise process_market_data(raw_data) is entered.
AfterFetch(s) ==
    IF ~Truthy(s.raw_data) THEN ReturnFalse(s, "fetch")
    ELSE [s EXCEPT !.pc = "normalize", !.idx = 1, !.processed_data = <<>>,
                   !.calls = @ \cup {"process_market_data"}]

\* A faulty variant of RequestFailed: the failed GET is sent again.
RequestFailedRetries(s, e) ==
    [s EXCEPT !.gets = @ + 1, !.error = e, !.calls = @ \cup {"fetch_market_data"}]

\* requests.get / raise_for_status raised e: logged, _make_api_request returns
\* None at once; the orchestrator sees a falsy raw_data.
RequestFailed(s, e) ==
    AfterFetch([s EXCEPT !.gets = @ + 1, !.error = e, !.raw_data = Null,
                         !.calls = @ \cup {"fetch_market_data"}])

\* requests.get returned a 2xx response: time.sleep(...) starts.
RequestSucceeded(s, body, now) ==
    [s EXCEPT !.pc = "sleeping", !.gets = @ + 1, !.response = body,
              !.wakeAt = now + SleepTicks,
              !.calls = @ \cup {"fetch_market_data"}]

\* A faulty variant of SleepReturned: the body is parsed before the sleep, so a body
\* that is not JSON returns None without sleeping.
SleepReturnedParseFirst(s) ==
    IF s.response = Undecodable
    THEN AfterFetch([s EXCEPT !.wakeAt = 0, !.error = "decode", !.raw_data = Null])
    ELSE AfterFetch([s EXCEPT !.slept = SleepTicks, !.wakeAt = 0,
                              !.raw_data = s.response])

\* time.sleep returned; return response.json(), None on ValueError.
SleepReturned(s) ==
    LET t == [s EXCEPT !.slept = SleepTicks, !.wakeAt = 0]
    IN  IF s.response = Undecodable
        THEN AfterFetch([t EXCEPT !.error = "decode", !.raw_data = Null])
        ELSE AfterFetch([t EXCEPT !.raw_data = s.response])

\* The handler of the per-record try: its log line evaluates
\* coin.get('id', 'unknown'), which raises again when coin has no .get; that
\* exception leaves process_market_data.  Otherwise `continue`.
ExceptHandler(s, coin) ==
    IF HasGet(coin) THEN [s EXCEPT !.idx = @ + 1] ELSE OuterExcept(s)

\* One iteration of `for coin in raw_data`.
ProcessCoin(s, coin, now) ==
    IF HasGet(coin)
    THEN [s EXCEPT !.processed_data = Append(@, ProcessedCoin(coin, now)),
                   !.idx = @ + 1]
    ELSE ExceptHandler(s, coin)

\* The loop of process_market_data has nothing left to walk (or the function
\* returned the empty DataFrame at `if not raw_data`).
LoopDone(s) ==
    \/ ~Truthy(s.raw_data)
    \/ Iterable(s.raw_data) /\ s.idx > Len(Iterate(s.raw_data))

\* A write at row offset k of a file: the file is padded when it is shorter
\* (it was truncated by another open since this writer's last write).
Hole == [c \in ColumnSet |-> IF c = "timestamp" THEN IsoFormat(0 - 1) ELSE Null]

WriteAt(content, k, row) ==
    IF k <= Len(content) THEN [content EXCEPT ![k] = row]
    ELSE content \o [i \in 1..(k - 1 - Len(content)) |-> Hole] \o <<row>>

(* ------------------------------ actions -------------------------------- *)

Init ==
    /\ clock = 0
    /\ files = <<>>
    /\ intended = <<>>
    /\ proc = [p \in Procs |-> IdleProc]

\* fetch_and_save_data -> fetch_market_data -> _make_api_request: the GET
\* fails with a RequestException.
RequestFails(p) ==
    /\ proc[p].pc = "idle"
    /\ \E e \in RequestErrors : proc' = [proc EXCEPT ![p] = RequestFailed(@, e)]
    /\ UNCHANGED <<clock, files, intended>>

\* The GET is answered with a 2xx status; the process sleeps.
RequestSucceeds(p) ==
    /\ proc[p].pc = "idle"
    /\ clock + SleepTicks <= MaxClock
    /\ \E body \in Bodies :
          proc' = [proc EXCEPT ![p] = RequestSucceeded(@, body, clock)]
    /\ UNCHANGED <<clock, files, intended>>

\* The sleep is over: the body is parsed and the orchestrator tests raw_data.
Wake(p) ==
    /\ proc[p].pc = "sleeping"
    /\ clock >= proc[p].wakeAt
    /\ proc' = [proc EXCEPT ![p] = SleepReturned(@)]
    /\ UNCHANGED <<clock, files, intended>>

\* process_market_data: one iteration of the loop (a TypeError when raw_data
\* cannot be iterated).
ProcessRecord(p) ==
    LET s == proc[p]
    IN  /\ s.pc = "normalize"
        /\ ~LoopDone(s)
        /\ proc' = [proc EXCEPT ![p] =
                      IF ~Iterable(s.raw_data) THEN OuterExcept(s)
                      ELSE ProcessCoin(s, Iterate(s.raw_data)[s.idx], clock)]
        /\ UNCHANGED <<clock, files, intended>>

\* process_market_data returns df; `if df.empty: return False`; otherwise
\* save_to_csv names the file after the current second and to_csv opens it
\* for writing, which creates or truncates it.
SaveToCsv(p) ==
    LET s == proc[p]
        name == StrfTime(clock)
    IN  /\ s.pc = "normalize"
        /\ LoopDone(s)
        /\ IF Len(s.processed_data) = 0
           THEN /\ proc' = [proc EXCEPT ![p] = ReturnFalse(s, "normalize")]
                /\ UNCHANGED <<files, intended>>
           ELSE /\ proc' = [proc EXCEPT ![p] =
                              [s EXCEPT !.pc = "writing", !.filepath = <<name>>,
                                        !.written = 0,
                                        !.calls = @ \cup {"save_to_csv"}]]
                /\ files' = (name :> <<>>) @@ files
                /\ intended' = (name :> s.processed_data) @@ intended
        /\ UNCHANGED clock

\* to_csv writes the next row at this writer's offset.
WriteRow(p) ==
    LET s == proc[p]
        name == s.filepath[1]
    IN  /\ s.pc = "writing"
        /\ s.written < Len(s.processed_data)
        /\ files' = [files EXCEPT ![name] =
                        WriteAt(@, s.written + 1, s.processed_data[s.written + 1])]
        /\ proc' = [proc EXCEPT ![p].written = @ + 1]
        /\ UNCHANGED <<clock, intended>>

\* to_csv wrote every row: save_to_csv returns filepath, the run returns True.
CloseCsv(p) ==
    /\ proc[p].pc = "writing"
    /\ proc[p].written = Len(proc[p].processed_data)
    /\ proc' = [proc EXCEPT ![p] = ReturnTrue(@)]
    /\ UNCHANGED <<clock, files, intended>>

\* os.makedirs or the open raises (the file is not touched), or a write
\* raises (the file keeps what was written): save_to_csv logs, returns "".
IOFailure(p) ==
    LET s == proc[p]
    IN  /\ \/ /\ s.pc = "normalize"
              /\ LoopDone(s)
              /\ Len(s.processed_data) > 0
              /\ proc' = [proc EXCEPT ![p] =
                            ReturnFalse([s EXCEPT !.calls = @ \cup {"save_to_csv"}],
                                        "persist")]
           \/ /\ s.pc = "writing"
              /\ proc' = [proc EXCEPT ![p] = ReturnFalse(s, "persist")]
        /\ UNCHANGED <<clock, files, intended>>

\* An external supervisor kills the process.
Kill(p) ==
    /\ proc[p].pc \in {"sleeping", "normalize", "writing"}
    /\ proc' = [proc EXCEPT ![p] = [Return(@, "pending", "none") EXCEPT !.pc = "killed"]]
    /\ UNCHANGED <<clock, files, intended>>

\* Time passes.
Tick ==
    /\ clock < MaxClock
    /\ clock' = clock + 1
    /\ UNCHANGED <<files, intended, proc>>

\* The steps of invocation p.
Step(p) ==
    \/ RequestFails(p)
    \/ RequestSucceeds(p)
    \/ Wake(p)
    \/ ProcessRecord(p)
    \/ SaveToCsv(p)
    \/ WriteRow(p)
    \/ CloseCsv(p)
    \/ IOFailure(p)

\* One invocation: fetch, normalize and persist run strictly in sequence.
Next == Step(1) \/ Kill(1) \/ Tick

Spec == Init /\ [][Next]_vars

\* Overlapping invocations (two scheduler ticks), not coordinated by the code.
NextConcurrent == (\E p \in Procs : Step(p) \/ Kill(p)) \/ Tick

SpecConcurrent == Init /\ [][NextConcurrent]_vars

\* process_market_data called on a batch: the run of invocation 1 from the
\* moment fetch_market_data returned the batch.
InitNormalize ==
    /\ clock = SleepTicks
    /\ files = <<>>
    /\ intended = <<>>
    /\ \E batch \in SeqsUpTo(BatchRecords, MaxBatch) :
          proc = [p \in Procs |->
                    IF p = 1
                    THEN SleepReturned(RequestSucceeded(IdleProc, Arr(batch), 0))
                    ELSE IdleProc]

NextNormalize == ProcessRecord(1)

SpecNormalize == InitNormalize /\ [][NextNormalize]_vars

(* ------------------------------- claims -------------------------------- *)

\* The _make_api_request call of the run has returned to fetch_and_save_data
\* (a process killed in its sleep never got control back).
CallReturned(s) == s.gets > 0 /\ s.pc \in {"normalize", "writing", "done"}

\* C1: a run whose fetch stage fails (a RequestException, or a body that is
\* not JSON: _make_api_request returns None) ends at once with False at the
\* "fetch" stage; process_market_data and save_to_csv were never entered and
\* the run opened no file.
C1_FailedFetchEndsRun ==
    \A p \in Procs :
        proc[p].error # "none" =>
            /\ proc[p].pc = "done"
            /\ proc[p].result = "False"
            /\ proc[p].stage = "fetch"
            /\ proc[p].calls = {"fetch_market_data"}
            /\ proc[p].filepath = <<>>
            /\ (\A q \in Procs \ {p} : proc[q].pc = "idle") => DOMAIN files = {}

\* A run ended by an HTTP error status.
C1_Witness ==
    \E p \in Procs : proc[p].error = "http_status" /\ proc[p].pc = "done"

\* C2 as stated: a run that fetched an empty JSON array enters the normalizer
\* and fails at the "normalize" stage, with no file.
C2_Original ==
    \A p \in Procs :
        (proc[p].pc = "done" /\ proc[p].response = Arr(<<>>)) =>
            /\ proc[p].result = "False"
            /\ proc[p].stage = "normalize"
            /\ "process_market_data" \in proc[p].calls
            /\ proc[p].filepath = <<>>

\* C2 amended: a run that fetched an empty JSON array fails at the "fetch"
\* stage (`if not raw_data`): the normalizer is never entered, no file.
C2_EmptyArrayFailsAtFetch ==
    \A p \in Procs :
        (proc[p].pc = "done" /\ proc[p].response = Arr(<<>>)) =>
            /\ proc[p].result = "False"
            /\ proc[p].stage = "fetch"
            /\ "process_market_data" \notin proc[p].calls
            /\ proc[p].filepath = <<>>

\* A run that slept after a 2xx answer, fetched [] and returned.
C2_Witness ==
    \E p \in Procs :
        /\ proc[p].pc = "done"
        /\ proc[p].response = Arr(<<>>)
        /\ proc[p].slept = SleepTicks

\* C3 as stated: whatever the outcome of the call, _make_api_request has
\* slept 60 / rate_limit_per_minute seconds when it returns.
C3_Original ==
    \A p \in Procs : CallReturned(proc[p]) => proc[p].slept = SleepTicks

\* C3 amended: _make_api_request has slept when it returns exactly when the
\* GET was answered with a 2xx status (the body parsed or not); after a
\* transport error, a timeout or a non-2xx status it returns without sleeping.
C3_SleepOnlyAfter2xx ==
    \A p \in Procs :
        CallReturned(proc[p]) =>
            /\ SleepTicks > 0
            /\ proc[p].error \in RequestErrors =>
                  proc[p].slept = 0 /\ proc[p].response = NoResponse
            /\ proc[p].error \in {"none", "decode"} =>
                  proc[p].slept = SleepTicks /\ proc[p].response # NoResponse

\* Both sides of C3: a decode failure that slept.
C3_Witness ==
    \E p \in Procs :
        /\ CallReturned(proc[p])
        /\ proc[p].error = "decode"
        /\ proc[p].slept = SleepTicks

\* A batch with a mapping record and a record that is not a mapping.
Mixed(v) ==
    /\ v.kind = "array"
    /\ \E i \in DOMAIN v.items : HasGet(v.items[i])
    /\ \E i \in DOMAIN v.items : ~HasGet(v.items[i])

\* C4 as stated: a record that is not a mapping is skipped alone; a run over
\* a batch mixing it with mapping records is not aborted by it and goes on to
\* hand the rows of the mapping records to save_to_csv.
C4_Original ==
    \A p \in Procs :
        (proc[p].pc = "done" /\ Mixed(proc[p].response)) =>
            /\ proc[p].stage # "exception"
            /\ "save_to_csv" \in proc[p].calls

NoWriter(f) ==
    \A p \in Procs : ~(proc[p].pc = "writing" /\ proc[p].filepath = <<f>>)

\* C6 as stated: a failed or killed write leaves no file of the final name
\* with part of the rows: a file that exists (and is not being written)
\* holds the complete row set its to_csv was given.
C6_Original ==
    \A f \in DOMAIN files : NoWriter(f) => files[f] = intended[f]

\* C7 as stated: every successful run adds a file of its own, and the file of
\* a run that succeeded is never changed afterwards.
C7_Original ==
    /\ [](Cardinality({p \in Procs : proc[p].result = "True"})
              <= Cardinality(DOMAIN files))
    /\ [][\A p \in Procs :
             proc[p].result = "True" =>
                 files'[proc[p].filepath[1]] = files[proc[p].filepath[1]]]_vars

\* C8: a run ends in one boolean: no exception leaves fetch_and_save_data
\* (the result is never "raised"), every failure stage returns False, True is
\* returned only after save_to_csv returned a path, and a run that has not
\* ended (or been killed) can always take its next step.
C8_RunEndsInBoolean ==
    \A p \in Procs :
        /\ proc[p].result \in {"pending", "True", "False"}
        /\ proc[p].pc = "done" <=> proc[p].result \in {"True", "False"}
        /\ proc[p].stage \in {"fetch", "normalize", "persist", "exception"} =>
              proc[p].result = "False"
        /\ proc[p].result = "True" =>
              /\ proc[p].stage = "success"
              /\ "save_to_csv" \in proc[p].calls
              /\ proc[p].filepath # <<>>
              /\ proc[p].filepath[1] \in DOMAIN files
        /\ (p = 1 /\ proc[p].pc \notin {"done", "killed"}) =>
              ENABLED (Step(p) \/ Tick)

\* An exception raised inside the normalizer's handler, turned into False.
C8_Witness ==
    \E p \in Procs :
        /\ proc[p].pc = "done"
        /\ proc[p].stage = "exception"
        /\ proc[p].result = "False"
        /\ Mixed(proc[p].response)

\* C9: a run sends exactly one GET and never a second one: a failed call
\* ends the fetch stage at once.
C9_OneGetNoRetry ==
    \A p \in Procs :
        /\ proc[p].gets <= 1
        /\ proc[p].pc # "idle" => proc[p].gets = 1
        /\ proc[p].error \in RequestErrors =>
              proc[p].pc = "done" /\ proc[p].stage = "fetch"

\* A run whose only GET timed out.
C9_Witness ==
    \E p \in Procs :
        proc[p].error = "timeout" /\ proc[p].gets = 1 /\ proc[p].pc = "done"

\* The value of key k has the type the schema expects.
WellTyped(k, v) ==
    IF k \in StringKeys THEN v.kind = "string" ELSE v.kind = "number"

\* The rows built so far are those of the first records of the batch, in
\* input order, one row per record.
RowsFollowInput(s) ==
    /\ Len(s.processed_data) = s.idx - 1
    /\ Len(s.processed_data) <= Len(s.raw_data.items)
    /\ \A i \in DOMAIN s.processed_data :
          /\ HasGet(s.raw_data.items[i])
          /\ DOMAIN s.processed_data[i] = ColumnSet

\* C10 as stated: a missing or wrong-typed field is null in the row, every
\* other field is the record's, one row per mapping record in input order.
C10_Original ==
    LET s == proc[1]
    IN  s.pc = "normalize" =>
            /\ RowsFollowInput(s)
            /\ \A i \in DOMAIN s.processed_data : \A c \in ColumnSet \ {"timestamp"} :
                  LET k == SourceKey(c)
                      f == s.raw_data.items[i].fields
                  IN  s.processed_data[i][c] =
                          IF k \in DOMAIN f /\ WellTyped(k, f[k]) THEN f[k] ELSE Null

\* C10 amended: each field is read on its own: a missing field is null in the
\* row, a present one is copied as it is, of the expected type or not; every
\* mapping record processed gives one row, in input order, so a batch of N
\* mapping records gives N rows.
C10_FieldsCopiedAsFound ==
    LET s == proc[1]
    IN  s.pc = "normalize" =>
            /\ RowsFollowInput(s)
            /\ \A i \in DOMAIN s.processed_data :
                  /\ \A k \in SourceKeys :
                        LET c == IF k = "id" THEN "coin_id" ELSE k
                            f == s.raw_data.items[i].fields
                        IN  s.processed_data[i][c] = IF k \in DOMAIN f THEN f[k] ELSE Null
            /\ (\A i \in DOMAIN s.raw_data.items : HasGet(s.raw_data.items[i])) /\ LoopDone(s)
                  => Len(s.processed_data) = Len(s.raw_data.items)

\* A finished batch of two: a record missing current_price (null in its row,
\* the rest populated) and one with a wrong-typed current_price (copied).
C10_Witness ==
    LET s == proc[1]
    IN  /\ s.pc = "normalize"
        /\ LoopDone(s)
        /\ Len(s.processed_data) = 2
        /\ s.raw_data.items[1] = Missing(FullRecord("ethereum"), "current_price")
        /\ s.processed_data[1]["current_price"] = Null
        /\ s.processed_data[1]["market_cap"] = Num(1)
        /\ s.processed_data[2]["current_price"] = Str("n/a")

====
